---- MODULE Spec2Model ----
(***************************************************************************)
(* A model of start_insights_services.py: the secret extractor             *)
(* (prepare_env), the SearXNG bootstrapper (generate_searxng_secret_key),  *)
(* the first-run patcher (check_and_fix_docker_compose_for_searxng), the   *)
(* command builder (docker_compose) and the phases of main.                *)
(*                                                                         *)
(* Text is a sequence of tokens.  A token is a piece of text that the code *)
(* only ever handles whole: the literals it searches for and replaces are  *)
(* single tokens or fixed sequences of tokens, so Python's `in`,           *)
(* str.replace, str.split, str.strip and str.lower become operations on    *)
(* token sequences that keep the containment between the literals (the     *)
(* active directive is a part of the commented sentinel).                  *)
(***************************************************************************)
EXTENDS Integers, Sequences, FiniteSets, TLC

VARIABLES
    envFile,        \* .env: [exists, lines]
    secretsDir,     \* .secrets: [exists, entries], entries: name -> [kind, content]
    settings,       \* searxng/settings.yml: [exists, content]
    settingsBase,   \* searxng/settings-base.yml: [exists, content]
    manifest,       \* docker-compose.yml: [exists, content]
    args,           \* what parse_args returned for the current run
    imageListed,    \* stdout of `docker image ls` names ollama/ollama:latest
    log,            \* the subprocess invocations of the current run, in order
    pc,             \* the position of main
    pullIdx,        \* pull_docker_images: index of the next compose file
    runs,           \* number of runs of main started
    prepHist,       \* calls of prepare_env: [env, before, after, ok]
    keyHist,        \* calls of generate_searxng_secret_key
    patchHist,      \* calls of check_and_fix_docker_compose_for_searxng
    ioFailed,       \* some file operation has failed so far
    manifest0       \* the manifest the model started with

vars == <<envFile, secretsDir, settings, settingsBase, manifest, args,
          imageListed, log, pc, pullIdx, runs, prepHist, keyHist, patchHist,
          ioFailed, manifest0>>

----------------------------------------------------------------------------
(* Bounds of the model *)

MaxLines == 2          \* lines of an environment file
MaxManifestParts == 2  \* pieces of a manifest
MaxCalls == 3          \* calls of a function in the per-function specifications
MaxRuns == 2           \* runs of main

----------------------------------------------------------------------------
(* Python's str operations, on token sequences *)

\* pat occurs in s at position i
MatchAt(s, pat, i) ==
    /\ i >= 1
    /\ i + Len(pat) - 1 <= Len(s)
    /\ \A j \in 1..Len(pat) : s[i + j - 1] = pat[j]

\* `pat in s` (pat is never empty here)
Contains(s, pat) == \E i \in 1..Len(s) : MatchAt(s, pat, i)

\* s.replace(old, new): every occurrence, leftmost first, never overlapping
RECURSIVE Replace(_, _, _)
Replace(s, old, new) ==
    IF Len(s) < Len(old) THEN s
    ELSE IF MatchAt(s, old, 1)
         THEN new \o Replace(SubSeq(s, Len(old) + 1, Len(s)), old, new)
         ELSE <<Head(s)>> \o Replace(Tail(s), old, new)

\* s.strip(chars): drop leading and trailing tokens that are in chars
RECURSIVE LStrip(_, _)
LStrip(s, chars) ==
    IF s # <<>> /\ Head(s) \in chars THEN LStrip(Tail(s), chars) ELSE s

RECURSIVE RStrip(_, _)
RStrip(s, chars) ==
    IF s # <<>> /\ s[Len(s)] \in chars
    THEN RStrip(SubSeq(s, 1, Len(s) - 1), chars) ELSE s

Strip(s, chars) == RStrip(LStrip(s, chars), chars)

Whitespace == {" "}

\* position of the first "=" of a line, 0 when there is none
FirstEq(line) ==
    IF \E i \in 1..Len(line) : line[i] = "="
    THEN CHOOSE i \in 1..Len(line) :
            line[i] = "=" /\ \A j \in 1..(i - 1) : line[j] # "="
    ELSE 0

\* str.lower, token by token
LowerTok(t) ==
    CASE t = "DB_" -> "db_"
      [] t = "API_" -> "api_"
      [] t = "HOST" -> "host"
      [] t = "KEY" -> "key"
      [] t = "PASSWORD" -> "password"
      [] t = "USERNAME" -> "username"
      [] t = "SALT" -> "salt"
      [] t = "TOKEN" -> "token"
      [] t = "SECRET" -> "secret"
      [] t = "AUTH" -> "auth"
      [] OTHER -> t

Lower(s) == [i \in 1..Len(s) |-> LowerTok(s[i])]

----------------------------------------------------------------------------
(* prepare_env *)

secret_keys == {"KEY", "PASSWORD", "USERNAME", "SALT", "TOKEN", "SECRET", "AUTH"}

\* line.strip() and not line.strip().startswith('#')
KeptLine(line) ==
    LET t == Strip(line, Whitespace) IN t # <<>> /\ Head(t) # "#"

RECURSIVE KeptLines(_)
KeptLines(lines) ==
    IF lines = <<>> THEN <<>>
    ELSE IF KeptLine(Head(lines))
         THEN <<Head(lines)>> \o KeptLines(Tail(lines))
         ELSE KeptLines(Tail(lines))

\* any(key in line for key in secret_keys)
LineIsSecret(line) == \E i \in 1..Len(line) : line[i] \in secret_keys

\* key, value = line.split('=', 1); key = key.lower()
LineKey(line) == Lower(SubSeq(line, 1, FirstEq(line) - 1))

\* value.strip().strip('"').strip("'")
LineValue(line) ==
    Strip(Strip(Strip(SubSeq(line, FirstEq(line) + 1, Len(line)),
                      Whitespace), {"\""}), {"'"})

\* os.remove of every plain file of the directory
ClearFiles(entries) ==
    LET kept == {m \in DOMAIN entries : entries[m].kind # "file"} IN
    IF kept = {} THEN <<>> ELSE [n \in kept |-> entries[n]]

\* the loop over the kept lines: [entries, ok]; ok is FALSE when a line
\* raised (no '=' to split at, or the target name is a directory)
RECURSIVE WriteSecrets(_, _)
WriteSecrets(lines, entries) ==
    IF lines = <<>> THEN [entries |-> entries, ok |-> TRUE]
    ELSE LET line == Head(lines) IN
         IF ~LineIsSecret(line) THEN WriteSecrets(Tail(lines), entries)
         ELSE IF FirstEq(line) = 0 THEN [entries |-> entries, ok |-> FALSE]
         ELSE LET name == LineKey(line) IN
              IF name \in DOMAIN entries /\ entries[name].kind = "dir"
              THEN [entries |-> entries, ok |-> FALSE]
              ELSE WriteSecrets(Tail(lines),
                       (name :> [kind |-> "file", content |-> LineValue(line)])
                           @@ entries)

\* the whole of prepare_env on a directory and an environment file
PrepareEnvResult(dir, env) ==
    LET cleared == ClearFiles(IF dir.exists THEN dir.entries ELSE <<>>) IN
    IF ~env.exists
    THEN [dir |-> [exists |-> TRUE, entries |-> cleared], ok |-> FALSE]
    ELSE LET w == WriteSecrets(KeptLines(env.lines), cleared) IN
         [dir |-> [exists |-> TRUE, entries |-> w.entries], ok |-> w.ok]

----------------------------------------------------------------------------
(* generate_searxng_secret_key *)

PLACEHOLDER == <<"ultrasecretkey">>

HexDigits == {"0", "1", "2", "3", "4", "5", "6", "7", "8", "9",
              "a", "b", "c", "d", "e", "f"}

\* the digits the model draws a token from
HexSample == {"0", "f"}

TokenBytes == 32

\* secrets.token_hex(nbytes): 2 * nbytes hexadecimal digits
token_hex(nbytes) == {[i \in 1..(2 * nbytes) |-> d] : d \in HexSample}

Absent == [exists |-> FALSE, content |-> <<>>]
File(content) == [exists |-> TRUE, content |-> content]

\* the outcome of a write that may fail: at open (the file is left as it
\* was) or after open(path, 'w') has truncated it
Written(old, new, fault) ==
    CASE fault = "write_open" -> old
      [] fault = "write_data" -> File(<<>>)
      [] OTHER -> File(new)

\* a variant that hands the content back as it was read
WithSecretKey_unreplaced(content, random_key) == content

\* content.replace("ultrasecretkey", random_key)
WithSecretKey(content, random_key) == Replace(content, PLACEHOLDER, random_key)

\* the settings file once the copy from the base has been tried
AfterCopy(set, base, fault) ==
    IF set.exists THEN set
    ELSE IF fault = "copy" THEN Absent ELSE File(base.content)

\* the guard at the top: without the base file nothing is done
BaseGuard(base) == base.exists

\* the whole function: settings.yml after the call
KeyResult(set, base, fault, random_key) ==
    IF ~BaseGuard(base) THEN set
    ELSE LET s1 == AfterCopy(set, base, fault) IN
         IF ~s1.exists THEN s1
         ELSE IF fault = "read" THEN s1
         ELSE IF ~Contains(s1.content, PLACEHOLDER) THEN s1
         ELSE Written(s1, WithSecretKey(s1.content, random_key), fault)

\* the file operations the call performs, in order
KeyOps(set, base) ==
    IF ~base.exists THEN {}
    ELSE (IF set.exists THEN {} ELSE {"copy"})
         \cup {"read"}
         \cup (IF Contains(AfterCopy(set, base, "none").content, PLACEHOLDER)
               THEN {"write_open", "write_data"} ELSE {})

----------------------------------------------------------------------------
(* check_and_fix_docker_compose_for_searxng *)

ACTIVE == <<"cap_drop: - ALL">>

SENTINEL == <<"# ", "cap_drop: - ALL",
              "  # Temporarily commented out for first run">>

\* content.replace("cap_drop: - ALL", "# cap_drop: - ALL  # Temporarily ...")
CommentOut(content) == Replace(content, ACTIVE, SENTINEL)

\* a variant that searches for the sentinel without its trailing comment
Restore_shortSentinel(content) ==
    Replace(content, <<"# ", "cap_drop: - ALL">>, ACTIVE)

\* content.replace("# cap_drop: - ALL  # Temporarily ...", "cap_drop: - ALL")
Restore(content) == Replace(content, SENTINEL, ACTIVE)

\* placeholder_present: settings.yml exists, is readable and has the placeholder
PlaceholderPresent(set, fault) ==
    /\ set.exists
    /\ fault # "settings_read"
    /\ Contains(set.content, PLACEHOLDER)

\* the whole function: docker-compose.yml after the call
PatchResult(man, set, fault) ==
    IF ~man.exists \/ fault = "manifest_read" THEN man
    ELSE IF PlaceholderPresent(set, fault) /\ Contains(man.content, ACTIVE)
         THEN Written(man, CommentOut(man.content), fault)
    ELSE IF ~PlaceholderPresent(set, fault) /\ Contains(man.content, SENTINEL)
         THEN Written(man, Restore(man.content), fault)
    ELSE man

\* the file operations the call performs
PatchOps(man, set) ==
    IF ~man.exists THEN {}
    ELSE {"manifest_read"}
         \cup (IF set.exists THEN {"settings_read"} ELSE {})
         \cup (IF \E f \in {"none", "settings_read"} :
                     PatchResult(man, set, f) # man
               THEN {"write_open", "write_data"} ELSE {})

----------------------------------------------------------------------------
(* docker_compose and the commands built from it *)

\* Python's None, distinct from every string the program handles
None == "<None>"

\* Python truthiness of an optional string
Truthy(x) == x # None /\ x # ""

\* os.path.exists for the extra compose files of the command line
ExistingFiles == {"extra.yml"}
Exists(file) == file \in ExistingFiles

\* os.path.join("local-ai-packaged", f"docker-compose.override.{environment}.yml")
EnvironmentCompose(environment) ==
    CASE environment = "private" ->
             "local-ai-packaged/docker-compose.override.private.yml"
      [] environment = "public" ->
             "local-ai-packaged/docker-compose.override.public.yml"

\* if profile and profile != "None": cmd.extend(["--profile", profile])
ProfileFlag(profile) ==
    IF Truthy(profile) /\ profile # "None" THEN <<"--profile", profile>> ELSE <<>>

\* for file in compose_files: appended only when it exists
RECURSIVE ExtraFlags(_)
ExtraFlags(files) ==
    IF files = <<>> THEN <<>>
    ELSE (IF Exists(Head(files)) THEN <<"-f", Head(files)>> ELSE <<>>)
         \o ExtraFlags(Tail(files))

docker_compose(project, profile, environment, compose_files, env_file) ==
    <<"docker", "compose">>
    \o (IF project # None THEN <<"-p", project>> ELSE <<>>)
    \o <<"--env-file", env_file>>
    \o ProfileFlag(profile)
    \o <<"-f", "docker-compose.yml", "-f", "docker-compose.override.yml">>
    \o (IF Truthy(environment) THEN <<"-f", EnvironmentCompose(environment)>>
        ELSE <<>>)
    \o ExtraFlags(compose_files)

\* stop_existing_containers(project, profile): project is not passed on
stop_existing_containers(project, profile) ==
    docker_compose(None, profile, None, <<>>, ".env") \o <<"down">>

\* main's call: stop_existing_containers(args.profile), one positional argument
StopCommand(a) == stop_existing_containers(a.profile, None)

generate_yml(project, profile, environment, compose_files) ==
    docker_compose(project, profile, environment, compose_files, ".env")
        \o <<"config">>

start_insights_lm(project, profile, environment, compose_files) ==
    docker_compose(project, profile, environment, compose_files, ".env")
        \o <<"up", "-d">>

\* pull_docker_images: the check command and the command of one compose file
ImageCheckCommand == <<"docker", "image", "ls", "ollama/ollama:latest">>

PullCommand(compose_file) ==
    <<"docker", "compose", "-p", "insights-lm", "--env-file", ".env",
      "-f", compose_file, "pull">>

\* the list main hands to pull_docker_images
PullFiles(a) ==
    <<"docker-compose.yml", "local-ai-packaged/docker-compose.yml",
      "supabase-insights-lm/docker-compose.yml">> \o a.compose_files

\* "ollama/ollama:latest" in stdout and not update: nothing is pulled
PullSkipped(listed, update) == listed /\ ~update

\* a variant without check=True: the exit status is not looked at
AfterCommand_unchecked(ok, next) == next

\* subprocess.run(..., check=True): a non-zero exit raises, and nothing in
\* main catches it
AfterCommand(ok, next) == IF ok THEN next ELSE "failed"

\* parse_args: the values the options can take
Profiles == {"cpu", "gpu-nvidia", "gpu-amd", "none"}
Environments == {"private", "public"}
Names == {"insights-lm", "other"}
ComposeFileLists ==
    {<<>>, <<"missing.yml">>, <<"extra.yml", "missing.yml">>}

parse_args ==
    [name : Names, profile : Profiles, environment : Environments,
     compose_files : ComposeFileLists, config : BOOLEAN, update : BOOLEAN]

DefaultArgs ==
    [name |-> "insights-lm", profile |-> "cpu", environment |-> "private",
     compose_files |-> <<>>, config |-> FALSE, update |-> FALSE]

----------------------------------------------------------------------------
(* The inputs the model draws from *)

BoundedSeq(S, n) == UNION {[1..k -> S] : k \in 0..n}

LineMenu ==
    { <<"DB_", "PASSWORD", "=", "secr3t">>,
      <<"HOST", "=", "localhost">>,
      <<"HOST", "=", "KEY">>,
      <<"#", "API_", "KEY", "=", "old">>,
      <<" ">>,
      <<"API_", "KEY", "=", " ", "\"", "abc", "\"", " ">>,
      <<"DB_", "PASSWORD", "=", "other">>,
      <<"db_", "PASSWORD", "=", "'", "lower", "'">>,
      <<"KEY">> }

NoEnv == [exists |-> FALSE, lines |-> <<>>]
EnvFiles ==
    {NoEnv} \cup {[exists |-> TRUE, lines |-> l] : l \in BoundedSeq(LineMenu, MaxLines)}

PlainFile(content) == [kind |-> "file", content |-> content]
SubDir == [kind |-> "dir", content |-> <<>>]

NoDir == [exists |-> FALSE, entries |-> <<>>]
SecretsDirs ==
    { NoDir,
      [exists |-> TRUE, entries |-> <<>>],
      [exists |-> TRUE, entries |-> (<<"old_", "token">> :> PlainFile(<<"stale">>))],
      [exists |-> TRUE, entries |-> (<<"db_", "password">> :> PlainFile(<<"old">>))],
      [exists |-> TRUE, entries |-> (<<"cache">> :> SubDir)],
      [exists |-> TRUE, entries |-> (<<"api_", "key">> :> SubDir)] }

SettingsMenu ==
    { Absent,
      File(<<"use_default_settings: true">>),
      File(<<"secret_key: ", "ultrasecretkey">>),
      File(<<"ultrasecretkey", "ultrasecretkey">>) }

BaseMenu == {Absent, File(<<"secret_key: ", "ultrasecretkey">>)}

\* the pieces a manifest is put together from: the literals the patcher
\* searches for, their parts, and other text
ManifestPieces ==
    {ACTIVE, SENTINEL, <<"services:">>, <<"# ">>,
     <<"  # Temporarily commented out for first run">>}

RECURSIVE Flatten(_)
Flatten(ss) == IF ss = <<>> THEN <<>> ELSE Head(ss) \o Flatten(Tail(ss))

Manifests ==
    {Absent} \cup
    {File(Flatten(ps)) : ps \in BoundedSeq(ManifestPieces, MaxManifestParts)}

----------------------------------------------------------------------------
(* The calls, as steps *)

IdleMain ==
    /\ args = DefaultArgs
    /\ imageListed = FALSE
    /\ log = <<>>
    /\ pc = "idle"
    /\ pullIdx = 1

NoHistory ==
    /\ prepHist = <<>>
    /\ keyHist = <<>>
    /\ patchHist = <<>>
    /\ ioFailed = FALSE

\* prepare_env() from pc = from, leading to pc = to when it returns
prepare_env(from, to) ==
    /\ pc = from
    /\ LET r == PrepareEnvResult(secretsDir, envFile) IN
        /\ secretsDir' = r.dir
        /\ prepHist' = Append(prepHist,
               [env |-> envFile, before |-> secretsDir, after |-> r.dir,
                ok |-> r.ok])
        /\ pc' = IF r.ok THEN to ELSE "failed"
    /\ UNCHANGED <<envFile, settings, settingsBase, manifest, args, imageListed,
                   log, pullIdx, runs, keyHist, patchHist, ioFailed, manifest0>>

\* generate_searxng_secret_key()
generate_searxng_secret_key(from, to) ==
    /\ pc = from
    /\ \E fault \in {"none"} \cup KeyOps(settings, settingsBase),
          random_key \in token_hex(TokenBytes) :
        LET after == KeyResult(settings, settingsBase, fault, random_key) IN
        /\ settings' = after
        /\ keyHist' = Append(keyHist,
               [before |-> settings, base |-> settingsBase, after |-> after])
        /\ ioFailed' = (ioFailed \/ fault # "none")
    /\ pc' = to
    /\ UNCHANGED <<envFile, secretsDir, settingsBase, manifest, args, imageListed,
                   log, pullIdx, runs, prepHist, patchHist, manifest0>>

\* check_and_fix_docker_compose_for_searxng()
check_and_fix_docker_compose_for_searxng(from, to) ==
    /\ pc = from
    /\ \E fault \in {"none"} \cup PatchOps(manifest, settings) :
        LET after == PatchResult(manifest, settings, fault) IN
        /\ manifest' = after
        /\ patchHist' = Append(patchHist,
               [before |-> manifest, after |-> after,
                signal |-> PlaceholderPresent(settings, fault)])
        /\ ioFailed' = (ioFailed \/ fault # "none")
    /\ pc' = to
    /\ UNCHANGED <<envFile, secretsDir, settings, settingsBase, args, imageListed,
                   log, pullIdx, runs, prepHist, keyHist, manifest0>>

\* run_command(cmd): the command is issued and exits zero or not
run_command(cmd, from, to) ==
    /\ pc = from
    /\ \E ok \in BOOLEAN :
        /\ log' = Append(log, [cmd |-> cmd, ok |-> ok])
        /\ pc' = AfterCommand(ok, to)

----------------------------------------------------------------------------
(* prepare_env on its own: SpecEnv *)

InitEnv ==
    /\ envFile \in EnvFiles
    /\ secretsDir \in SecretsDirs
    /\ settings = Absent
    /\ settingsBase = Absent
    /\ manifest = Absent
    /\ manifest0 = Absent
    /\ IdleMain
    /\ runs = 0
    /\ NoHistory

CallPrepareEnv ==
    /\ Len(prepHist) < MaxCalls
    /\ prepare_env("idle", "idle")

\* between two calls the operator removes the first line of .env
EditEnv ==
    /\ envFile.exists
    /\ envFile.lines # <<>>
    /\ prepHist # <<>>
    /\ envFile' = [envFile EXCEPT !.lines = Tail(@)]
    /\ UNCHANGED <<secretsDir, settings, settingsBase, manifest, args,
                   imageListed, log, pc, pullIdx, runs, prepHist, keyHist,
                   patchHist, ioFailed, manifest0>>

NextEnv == CallPrepareEnv \/ EditEnv

SpecEnv == InitEnv /\ [][NextEnv]_vars

----------------------------------------------------------------------------
(* The bootstrapper and the patcher on their own: SpecSearx *)

InitSearx ==
    /\ envFile = NoEnv
    /\ secretsDir = NoDir
    /\ settings \in SettingsMenu
    /\ settingsBase \in BaseMenu
    /\ manifest \in Manifests
    /\ manifest0 = manifest
    /\ IdleMain
    /\ runs = 0
    /\ NoHistory

CallKey ==
    /\ Len(keyHist) + Len(patchHist) < MaxCalls
    /\ generate_searxng_secret_key("idle", "idle")

CallPatch ==
    /\ Len(keyHist) + Len(patchHist) < MaxCalls
    /\ check_and_fix_docker_compose_for_searxng("idle", "idle")

NextSearx == CallKey \/ CallPatch

SpecSearx == InitSearx /\ [][NextSearx]_vars

----------------------------------------------------------------------------
(* main *)

MainEnvFiles ==
    {NoEnv,
     [exists |-> TRUE,
      lines |-> << <<"DB_", "PASSWORD", "=", "secr3t">>,
                   <<"HOST", "=", "localhost">> >>]}

MainSettings == {Absent, File(<<"secret_key: ", "ultrasecretkey">>)}

MainManifests ==
    {Absent,
     File(<<"services:", "cap_drop: - ALL">>),
     File(<<"services:">> \o SENTINEL)}

Init ==
    /\ envFile \in MainEnvFiles
    /\ secretsDir = NoDir
    /\ settings \in MainSettings
    /\ settingsBase \in BaseMenu
    /\ manifest \in MainManifests
    /\ manifest0 = manifest
    /\ IdleMain
    /\ runs = 0
    /\ NoHistory

\* args = parse_args(): a new process starts
Parse ==
    /\ pc = "idle"
    /\ runs < MaxRuns
    /\ runs' = runs + 1
    /\ args' \in parse_args
    /\ pc' = IF args'.config THEN "config" ELSE "prepare_env"
    /\ UNCHANGED <<envFile, secretsDir, settings, settingsBase, manifest,
                   imageListed, log, pullIdx, prepHist, keyHist, patchHist,
                   ioFailed, manifest0>>

\* the process ends, by return or by the uncaught exception: what it held in
\* memory is gone, the files stay
Exit ==
    /\ pc \in {"done", "failed"}
    /\ pc' = "idle"
    /\ args' = DefaultArgs
    /\ imageListed' = FALSE
    /\ log' = <<>>
    /\ pullIdx' = 1
    /\ UNCHANGED runs
    /\ prepHist' = <<>>
    /\ keyHist' = <<>>
    /\ patchHist' = <<>>
    /\ UNCHANGED <<envFile, secretsDir, settings, settingsBase, manifest,
                   ioFailed, manifest0>>

FilesAndHistory ==
    <<envFile, secretsDir, settings, settingsBase, manifest, prepHist, keyHist,
      patchHist, ioFailed, manifest0>>

\* if args.config: print(generate_yml(...)); return
Config ==
    /\ run_command(generate_yml(args.name, args.profile, args.environment,
                                args.compose_files), "config", "done")
    /\ UNCHANGED <<FilesAndHistory, args, imageListed, pullIdx, runs>>

MainPrepareEnv == prepare_env("prepare_env", "searxng_key")

MainKey == generate_searxng_secret_key("searxng_key", "fix_compose")

MainPatch == check_and_fix_docker_compose_for_searxng("fix_compose", "stop")

\* stop_existing_containers(args.profile)
Stop ==
    /\ run_command(StopCommand(args), "stop", "image_check")
    /\ UNCHANGED <<FilesAndHistory, args, imageListed, pullIdx, runs>>

\* pull_docker_images: docker image ls, then skip or start the loop
ImageCheck ==
    /\ pc = "image_check"
    /\ \E ok \in BOOLEAN, listed \in BOOLEAN :
        /\ log' = Append(log, [cmd |-> ImageCheckCommand, ok |-> ok])
        /\ imageListed' = (ok /\ listed)
        /\ pc' = AfterCommand(ok,
                     IF PullSkipped(listed, args.update) THEN "up" ELSE "pull")
    /\ UNCHANGED <<FilesAndHistory, args, pullIdx, runs>>

\* pull_docker_images: one iteration of the loop
Pull ==
    /\ pullIdx <= Len(PullFiles(args))
    /\ run_command(PullCommand(PullFiles(args)[pullIdx]), "pull",
                   IF pullIdx = Len(PullFiles(args)) THEN "up" ELSE "pull")
    /\ pullIdx' = pullIdx + 1
    /\ UNCHANGED <<FilesAndHistory, args, imageListed, runs>>

\* start_insights_lm(project=args.name, ...)
Up ==
    /\ run_command(start_insights_lm(args.name, args.profile, args.environment,
                                     args.compose_files), "up", "done")
    /\ UNCHANGED <<FilesAndHistory, args, imageListed, pullIdx, runs>>

Next ==
    \/ Parse
    \/ Config
    \/ MainPrepareEnv
    \/ MainKey
    \/ MainPatch
    \/ Stop
    \/ ImageCheck
    \/ Pull
    \/ Up
    \/ Exit

Spec == Init /\ [][Next]_vars

----------------------------------------------------------------------------
(* Claims about prepare_env, checked under SpecEnv *)

\* the KEY of a line (the text before its first '=') contains a marker
KeyHasMarker(line) ==
    \E i \in 1..(FirstEq(line) - 1) : line[i] \in secret_keys

\* every line that is kept is KEY=VALUE with a KEY
WellFormed(env) ==
    /\ env.exists
    /\ \A i \in 1..Len(env.lines) :
           KeptLine(env.lines[i]) => FirstEq(env.lines[i]) > 1

\* the kept lines of env whose KEY contains a marker
MarkedLines(env) ==
    {i \in 1..Len(env.lines) :
        KeptLine(env.lines[i]) /\ KeyHasMarker(env.lines[i])}

\* the names lowercase(KEY) of those lines
MarkedNames(env) == {LineKey(env.lines[i]) : i \in MarkedLines(env)}

\* the current value of a name: that of the last line that sets it
CurrentValue(env, name) ==
    LET is == {i \in MarkedLines(env) : LineKey(env.lines[i]) = name}
        last == CHOOSE i \in is : \A j \in is : j <= i
    IN  LineValue(env.lines[last])

PlainFiles(dir) ==
    {n \in DOMAIN dir.entries : dir.entries[n].kind = "file"}

\* the successful calls of prepare_env on a well-formed environment file
GoodPrepCalls ==
    {k \in 1..Len(prepHist) : prepHist[k].ok /\ WellFormed(prepHist[k].env)}

\* first half of C1: every line whose KEY has a marker gets its file
C1_MarkedKeysHaveFiles ==
    \A k \in GoodPrepCalls :
        \A n \in MarkedNames(prepHist[k].env) :
            /\ n \in PlainFiles(prepHist[k].after)
            /\ prepHist[k].after.entries[n].content
                   = CurrentValue(prepHist[k].env, n)

\* C1: after prepare_env returns, every non-comment line whose KEY contains a
\* marker has the file lowercase(KEY) holding its unquoted, trimmed VALUE, and
\* no file exists for a line whose KEY contains no marker, whatever its VALUE
C1_SecretsFromKeysOnly ==
    /\ C1_MarkedKeysHaveFiles
    /\ \A k \in GoodPrepCalls :
           \A i \in 1..Len(prepHist[k].env.lines) :
               LET line == prepHist[k].env.lines[i] IN
               (KeptLine(line) /\ ~KeyHasMarker(line)
                    /\ LineKey(line) \notin MarkedNames(prepHist[k].env))
                   => LineKey(line) \notin PlainFiles(prepHist[k].after)

\* C2: after every successful prepare_env, whatever the directory held, its
\* plain files are exactly the lower-cased sensitive keys of the current
\* environment file, each with the key's current value; and two consecutive
\* runs on an unchanged environment file leave the same directory
C2_DirectoryIsExactlySensitiveKeys ==
    /\ \A k \in GoodPrepCalls :
           /\ PlainFiles(prepHist[k].after) = MarkedNames(prepHist[k].env)
           /\ \A n \in MarkedNames(prepHist[k].env) :
                  prepHist[k].after.entries[n].content
                      = CurrentValue(prepHist[k].env, n)
    /\ \A k \in GoodPrepCalls :
           (k > 1 /\ prepHist[k - 1].ok /\ prepHist[k - 1].env = prepHist[k].env)
               => prepHist[k].after = prepHist[k - 1].after

\* the part of C2 that does not depend on which lines count as sensitive:
\* stale files are purged and a repeated run changes nothing
C2_PurgeAndIdempotence ==
    \A k \in 1..Len(prepHist) :
        /\ prepHist[k].ok =>
              PlainFiles(prepHist[k].after)
                  = {LineKey(l) : l \in {prepHist[k].env.lines[i] :
                        i \in {j \in 1..Len(prepHist[k].env.lines) :
                            KeptLine(prepHist[k].env.lines[j])
                            /\ LineIsSecret(prepHist[k].env.lines[j])}}}
        /\ (k > 1 /\ prepHist[k].ok /\ prepHist[k - 1].ok
              /\ prepHist[k - 1].env = prepHist[k].env)
              => prepHist[k].after = prepHist[k - 1].after

----------------------------------------------------------------------------
(* Claims about the bootstrapper and the patcher, checked under SpecSearx *)

\* the tokens the claim speaks of: 64 hexadecimal characters
ClaimedTokens == {[i \in 1..64 |-> d] : d \in HexDigits}

\* the calls of the bootstrapper on an existing settings.yml with the placeholder
KeyCallsOnPlaceholder ==
    {k \in 1..Len(keyHist) :
        /\ keyHist[k].before.exists
        /\ Contains(keyHist[k].before.content, PLACEHOLDER)}

\* what C3 says of call k: every placeholder replaced by one 64-digit token,
\* and the next call changes nothing
KeyCallReplaces(k) ==
    /\ keyHist[k].after.exists
    /\ ~Contains(keyHist[k].after.content, PLACEHOLDER)
    /\ \E t \in ClaimedTokens :
           keyHist[k].after.content
               = Replace(keyHist[k].before.content, PLACEHOLDER, t)
    /\ k < Len(keyHist) =>
           /\ keyHist[k + 1].before = keyHist[k].after
           /\ keyHist[k + 1].after = keyHist[k].after

\* C3: whenever settings.yml exists and contains 'ultrasecretkey', one run
\* replaces every occurrence by one 64-character hexadecimal token and a
\* second run leaves the file unchanged, also when the base template is absent
C3_PlaceholderAlwaysReplaced ==
    ~ioFailed => \A k \in KeyCallsOnPlaceholder : KeyCallReplaces(k)

\* the same, for the calls made while the base template exists
C3_ReplacedWhenBaseExists ==
    ~ioFailed =>
        \A k \in KeyCallsOnPlaceholder :
            keyHist[k].base.exists => KeyCallReplaces(k)

\* every directive of the text is inside a commented sentinel
NoActiveOutsideSentinel(content) ==
    ~Contains(Replace(content, SENTINEL, <<>>), ACTIVE)

\* two patcher calls in a row, the first with the first-run signal on a
\* manifest with the active directive, the second without the signal
RoundTripPairs ==
    {k \in 1..(Len(patchHist) - 1) :
        /\ patchHist[k].before.exists
        /\ Contains(patchHist[k].before.content, ACTIVE)
        /\ patchHist[k].signal
        /\ ~patchHist[k + 1].signal}

\* C4: for every manifest containing 'cap_drop: - ALL', the patcher run with
\* the first-run signal comments every directive out, and run again without
\* the signal gives back exactly the original text
C4_RoundTrip ==
    ~ioFailed =>
        \A k \in RoundTripPairs :
            /\ patchHist[k].after # patchHist[k].before
            /\ Contains(patchHist[k].after.content, SENTINEL)
            /\ NoActiveOutsideSentinel(patchHist[k].after.content)
            /\ patchHist[k + 1].before = patchHist[k].after
            /\ patchHist[k + 1].after = patchHist[k].before

\* a round trip has happened on a manifest with two directives
C4_Witness ==
    /\ ~ioFailed
    /\ \E k \in RoundTripPairs :
           /\ patchHist[k].before.content
                  = <<"services:", "cap_drop: - ALL">>
           /\ patchHist[k].after.content # patchHist[k].before.content
           /\ patchHist[k + 1].after = patchHist[k].before

\* the manifest is in the commented state
Commented(content) ==
    Contains(content, SENTINEL) /\ NoActiveOutsideSentinel(content)

\* C10: on a manifest already in the commented state, with the first-run
\* signal still true, the patcher changes nothing; so first-run calls followed
\* by one call without the signal give back the original active text
C10_IdempotentOnFirstRun ==
    ~ioFailed =>
        /\ \A k \in 1..Len(patchHist) :
               (patchHist[k].before.exists /\ patchHist[k].signal
                    /\ Commented(patchHist[k].before.content))
                   => patchHist[k].after = patchHist[k].before
        /\ \A i \in 1..Len(patchHist) : \A j \in (i + 1)..Len(patchHist) :
               (/\ patchHist[i].before.exists
                /\ Contains(patchHist[i].before.content, ACTIVE)
                /\ ~Contains(patchHist[i].before.content, SENTINEL)
                /\ \A m \in i..(j - 1) : patchHist[m].signal
                /\ ~patchHist[j].signal)
                   => patchHist[j].after = patchHist[i].before

----------------------------------------------------------------------------
(* Claims about main and the commands it issues, checked under Spec *)

\* cmd carries the option flag with the value val
HasFlag(cmd, flag, val) ==
    \E i \in 1..(Len(cmd) - 1) : cmd[i] = flag /\ cmd[i + 1] = val

HasOption(cmd, flag) == \E i \in 1..Len(cmd) : cmd[i] = flag

Last(cmd) == cmd[Len(cmd)]

\* the phase a command belongs to: 1 stop, 2 image check, 3 pull, 4 start
Phase(cmd) ==
    CASE Last(cmd) = "down" -> 1
      [] Last(cmd) = "ollama/ollama:latest" -> 2
      [] Last(cmd) = "pull" -> 3
      [] Last(cmd) = "-d" -> 4
      [] OTHER -> 0

InRun == pc # "idle"

\* C5: no extra overlay path that is missing on disk is ever the argument of
\* a '-f' of a command the tool issues (config, stop, pull or start), and the
\* run reaches the start phase as if the path had not been given
C5_MissingOverlayNeverPassed ==
    InRun =>
        \A i \in 1..Len(log) :
            \A j \in 1..Len(args.compose_files) :
                ~Exists(args.compose_files[j])
                    => ~HasFlag(log[i].cmd, "-f", args.compose_files[j])

\* C6: the start and config commands carry '--profile <profile>' exactly when
\* the profile is not 'none'; with 'none' there is no '--profile' at all
C6_ProfileFlagUnlessNone ==
    InRun =>
        \A i \in 1..Len(log) :
            (Phase(log[i].cmd) = 4 \/ Last(log[i].cmd) = "config") =>
                IF args.profile = "none"
                THEN ~HasOption(log[i].cmd, "--profile")
                ELSE HasFlag(log[i].cmd, "--profile", args.profile)

\* C8: the stop ('down') command carries '-p insights-lm', the project the
\* pull commands use and the start command uses by default
C8_StopNamesProject ==
    InRun =>
        \A i \in 1..Len(log) :
            Phase(log[i].cmd) = 1 => HasFlag(log[i].cmd, "-p", "insights-lm")

IsPrefix(s, t) == Len(s) <= Len(t) /\ \A i \in 1..Len(s) : s[i] = t[i]

\* the number of pulls the claim gives: none when the marker image is listed
\* and no update is asked, else one per listed compose file (three base
\* manifests and the extra ones)
ClaimedPulls(listed) ==
    IF listed /\ ~args.update THEN 0 ELSE 3 + Len(args.compose_files)

\* the phases of a whole run, in the claimed order
ClaimedPhases(listed) ==
    <<1, 2>> \o [k \in 1..ClaimedPulls(listed) |-> 3] \o <<4>>

LogPhases == [i \in 1..Len(log) |-> Phase(log[i].cmd)]

\* C7: without the config flag the commands come in the order stop, pulls
\* (none when the image is listed and no update is asked, else one per compose
\* file, in the order listed), start; a command that exits non-zero is the last
\* command of the run, so start is issued only after all before it succeeded
C7_PhaseOrderAndFailStop ==
    (InRun /\ ~args.config) =>
        /\ \E listed \in BOOLEAN : IsPrefix(LogPhases, ClaimedPhases(listed))
        /\ (Len(log) >= 2 /\ log[2].ok)
               => IsPrefix(LogPhases, ClaimedPhases(imageListed))
        /\ \A i \in 1..Len(log) :
               Phase(log[i].cmd) = 3 =>
                   HasFlag(log[i].cmd, "-f", PullFiles(args)[i - 2])
        /\ \A i \in 1..(Len(log) - 1) : log[i].ok
        /\ pc = "failed" =>
               (log = <<>> \/ ~log[Len(log)].ok)
        /\ pc = "done" =>
               /\ LogPhases = ClaimedPhases(imageListed)
               /\ \A i \in 1..Len(log) : log[i].ok

\* a run that pulled every compose file, two extra ones included, and started
C7_Witness ==
    /\ pc = "done"
    /\ ~args.config
    /\ Len(args.compose_files) = 2
    /\ Len(log) = 8
    /\ Phase(log[8].cmd) = 4

\* the runs C9 speaks of: the manifest started with the active directive and
\* no sentinel, the base template exists, no file operation has failed
C9_Premise ==
    /\ manifest0.exists
    /\ Contains(manifest0.content, ACTIVE)
    /\ ~Contains(manifest0.content, SENTINEL)
    /\ settingsBase.exists
    /\ ~ioFailed

\* C9: in such runs the placeholder is gone when the patcher inspects
\* settings.yml, the patcher never sees the first-run signal, and the manifest
\* has no commented sentinel when the start command is issued
C9_DirectiveActiveAtStart ==
    C9_Premise =>
        /\ pc = "fix_compose" =>
               (settings.exists /\ ~Contains(settings.content, PLACEHOLDER))
        /\ \A k \in 1..Len(patchHist) : ~patchHist[k].signal
        /\ (pc = "up" \/ \E i \in 1..Len(log) : Phase(log[i].cmd) = 4) =>
               (~Contains(manifest.content, SENTINEL)
                    /\ Contains(manifest.content, ACTIVE))

\* a second run about to start the containers, after the bootstrapper of the
\* first run replaced the placeholder
C9_Witness ==
    /\ C9_Premise
    /\ runs = 2
    /\ pc = "up"
    /\ Len(patchHist) = 1
    /\ manifest = manifest0
    /\ \E t \in token_hex(TokenBytes) : Contains(settings.content, t)

====
